---------------------------- MODULE Spec2Model ----------------------------
(***************************************************************************)
(* Model of backend/server.py: the asynchronous video generation pipeline  *)
(* (process_video_generation), its stages (generate_script_with_deepseek,  *)
(* generate_image_with_dalle, generate_audio_with_tts and their            *)
(* placeholders, create_video_from_assets) and the create_video_generation *)
(* handler that persists a record and schedules the pipeline.              *)
(*                                                                         *)
(* Everything runs on one asyncio event loop.  A coroutine gives up the    *)
(* loop only at an await that really suspends: the motor calls             *)
(* (insert_one, update_one, find_one, to_list) and asyncio.gather.  The    *)
(* calls of requests.post, the synchronous OpenAI client, PIL, ffmpeg and  *)
(* moviepy are blocking.                                                   *)
(* The actions below are the pieces between those points; the finer steps  *)
(* inside a blocking piece are taken while the loop is held (LoopFree).    *)
(*                                                                         *)
(* The record store is taken to apply every insert and update (a durable   *)
(* single-document store); the providers, the placeholder renderers and    *)
(* the video renderer may fail.                                            *)
(***************************************************************************)
EXTENDS Integers, Sequences, FiniteSets, TLC

(***************************************************************************)
(* Bounds of the model.                                                    *)
(***************************************************************************)
\* largest number of entries in the "segments" array the script provider returns
MaxPayload == 2
\* number of asset files an outside process may delete
MaxDeletes == 1
\* largest number of entries in the "segments" array of the answer given to a
\* generation that runs beside the first
MaxPayloadBeside == 1

(***************************************************************************)
(* Program constants: the Field bounds of VideoRequest.                    *)
(***************************************************************************)
MinDuration == 10
MaxDuration == 600
MinSegments == 1
MaxSegments == 10

\* The ids of the generations: one create_video_generation call each, with a
\* fresh uuid4 (line 71).  Two pipelines are enough to interleave.
Ids == {1, 2}

\* Optional[...] values: None is the empty tuple, a value v is <<v>>.
None == <<>>
Some(v) == <<v>>

(***************************************************************************)
(* duration / segments (line 97) is kept exact, as a reduced fraction.     *)
(***************************************************************************)
RECURSIVE Gcd(_, _)
Gcd(a, b) == IF b = 0 THEN a ELSE Gcd(b, a % b)

TrueDiv(a, b) ==
    LET g == Gcd(a, b)
    IN  [num |-> a \div g, den |-> b \div g]

ToFloat(n) == [num |-> n, den |-> 1]

(***************************************************************************)
(* Request bodies of POST /api/generate-video.  A body is a JSON object;   *)
(* VideoGenerationCreate requires "prompt" (a string) and defaults the     *)
(* two integers.                                                           *)
(***************************************************************************)
\* The bodies the pipeline is run with.
PipelineBodies ==
    { [prompt |-> "intro to tides", duration |-> 30, segments |-> 2],
      [prompt |-> "intro to tides", duration |-> 9, segments |-> 1],
      [duration |-> 30, segments |-> 2] }

RequestBodies ==
    { [prompt |-> "intro to tides", duration |-> 30, segments |-> 2],
      [prompt |-> "intro to tides"],
      [prompt |-> "", duration |-> 10, segments |-> 1],
      [prompt |-> "intro to tides", duration |-> 9, segments |-> 1],
      [prompt |-> "intro to tides", duration |-> 601, segments |-> 2],
      [prompt |-> "intro to tides", duration |-> 30, segments |-> 0],
      [prompt |-> "intro to tides", duration |-> 30, segments |-> 11],
      [prompt |-> "", duration |-> 0 - 10, segments |-> 100],
      [duration |-> 30, segments |-> 2] }

\* VideoGenerationCreate (lines 80-83): prompt: str, duration: int = 60,
\* segments: int = 3, no range constraints.
DefaultDuration == 60
DefaultSegments == 3

VideoGenerationCreateValid(body) == "prompt" \in DOMAIN body

VideoGenerationCreate(body) ==
    [prompt   |-> body.prompt,
     duration |-> IF "duration" \in DOMAIN body THEN body.duration ELSE DefaultDuration,
     segments |-> IF "segments" \in DOMAIN body THEN body.segments ELSE DefaultSegments]

\* VideoRequest (lines 55-58): duration ge=10 le=600, segments ge=1 le=10,
\* prompt: str with no constraint.
VideoRequestValid(request) ==
    /\ request.duration >= MinDuration
    /\ request.duration <= MaxDuration
    /\ request.segments >= MinSegments
    /\ request.segments <= MaxSegments

\* Mutant of VideoGeneration: the record is created already past "processing".
VideoGenerationStarted(id, request, now) ==
    [id         |-> id,
     prompt     |-> request.prompt,
     duration   |-> request.duration,
     segments   |-> request.segments,
     status     |-> "generating_script",
     video_url  |-> None,
     script     |-> None,
     error      |-> None,
     created_at |-> now]

\* VideoGeneration (lines 70-78) as inserted: status "processing", no
\* video_url, no script; the document has no "error" key until the pipeline
\* sets one (None here).
VideoGeneration(id, request, now) ==
    [id         |-> id,
     prompt     |-> request.prompt,
     duration   |-> request.duration,
     segments   |-> request.segments,
     status     |-> "processing",
     video_url  |-> None,
     script     |-> None,
     error      |-> None,
     created_at |-> now]

(***************************************************************************)
(* The script provider's answer: an HTTP status code and, for 200, the     *)
(* text of choices[0].message.content.  The text is described by what the  *)
(* parser can see in it:                                                   *)
(*   wrap = "json"   the whole text is a JSON document                     *)
(*   wrap = "fence"  prose around a ```json ... ``` block                  *)
(*   wrap = "prose"  neither                                               *)
(*   valid           whether the JSON text (whole or fenced) parses        *)
(*   json            the parsed value: an object, a function on its keys   *)
(***************************************************************************)
SegmentPayloads ==
    { [segment_id |-> 1, content |-> "the moon pulls the sea", image_prompt |-> "a beach at low tide"],
      [segment_id |-> 5, content |-> "the moon pulls the sea", image_prompt |-> "a beach at low tide",
       duration |-> 7],
      [segment_id |-> 1, image_prompt |-> "a beach at low tide"] }

RECURSIVE SeqsUpTo(_, _)
SeqsUpTo(S, n) ==
    IF n = 0 THEN { <<>> }
    ELSE LET shorter == SeqsUpTo(S, n - 1)
         IN  shorter \cup { Append(s, x) : s \in { t \in shorter : Len(t) = n - 1 }, x \in S }

JsonBodies ==
    { [segments |-> segs] : segs \in SeqsUpTo(SegmentPayloads, MaxPayload) }
        \cup { [scenes |-> <<>>] }

ScriptResponses ==
    { [status_code |-> 503] }
        \cup { [status_code |-> 200, wrap |-> w, valid |-> TRUE, json |-> j] :
                 w \in {"json", "fence"}, j \in JsonBodies }
        \cup { [status_code |-> 200, wrap |-> "fence", valid |-> FALSE],
               [status_code |-> 200, wrap |-> "prose", valid |-> FALSE] }

\* The answers the pipeline is run with: one of each kind, and every length.
UniformPayload(n) ==
    [k \in 1..n |-> [segment_id |-> 5, content |-> "the moon pulls the sea",
                     image_prompt |-> "a beach at low tide", duration |-> 7]]

PipelineResponses ==
    { [status_code |-> 503],
      [status_code |-> 200, wrap |-> "prose", valid |-> FALSE],
      [status_code |-> 200, wrap |-> "json", valid |-> TRUE,
       json |-> [segments |-> << [segment_id |-> 1, image_prompt |-> "a beach at low tide"] >>]] }
        \cup { [status_code |-> 200, wrap |-> "fence", valid |-> TRUE,
                json |-> [segments |-> UniformPayload(n)]] : n \in 0..MaxPayload }

\* The answers generation i is run with: all of them for the first, and for
\* one beside it those of at most MaxPayloadBeside segments.
PipelineResponsesOf(i) ==
    IF i = 1 THEN PipelineResponses
    ELSE { r \in PipelineResponses :
             "json" \in DOMAIN r => Len(r.json.segments) <= MaxPayloadBeside }

\* The answers generate_script_with_deepseek turns into a script with at
\* least one segment.
GoodResponses ==
    { r \in PipelineResponses :
        /\ r.status_code = 200
        /\ r.valid
        /\ "segments" \in DOMAIN r.json
        /\ Len(r.json.segments) >= 1
        /\ \A k \in 1..Len(r.json.segments) :
              {"content", "image_prompt"} \subseteq DOMAIN r.json.segments[k] }

\* json.loads(script_content), lines 145-147
JsonLoadsOk(resp) == resp.wrap = "json" /\ resp.valid

\* re.search(r'```json\s*(.*?)\s*```', ...), line 150
FenceFound(resp) == resp.wrap = "fence"

\* lines 156-166: the segments of the VideoScript, numbered in response order,
\* each with the uniform segment_duration.
SegmentIdOf(i, seg) == i

\* Mutant of SegmentDurationOf: a duration the model supplied is kept.
SegmentDurationKept(seg, segment_duration) ==
    IF "duration" \in DOMAIN seg THEN ToFloat(seg.duration) ELSE segment_duration

SegmentDurationOf(seg, segment_duration) == segment_duration

ScriptSegments(payload, segment_duration) ==
    [i \in 1..Len(payload) |->
        [segment_id   |-> SegmentIdOf(i, payload[i]),
         content      |-> payload[i].content,
         duration     |-> SegmentDurationOf(payload[i], segment_duration),
         image_prompt |-> payload[i].image_prompt]]

\* First index of the payload whose entry lacks a required key (0: none);
\* seg["content"] is read before seg["image_prompt"] (lines 161, 163).
RECURSIVE FirstBadSegment(_, _)
FirstBadSegment(payload, i) ==
    IF i > Len(payload) THEN 0
    ELSE IF "content" \notin DOMAIN payload[i] \/ "image_prompt" \notin DOMAIN payload[i]
         THEN i
         ELSE FirstBadSegment(payload, i + 1)

MissingKey(seg) ==
    IF "content" \notin DOMAIN seg THEN "KeyError: content" ELSE "KeyError: image_prompt"

\* An exception as str(e) shows it: the message of the clause that raised
\* last, the message it wrapped, and the segment the message names (0: none).
Error(detail, cause, segment) == [detail |-> detail, cause |-> cause, segment |-> segment]

\* The except clause of lines 168-170 wraps whatever was raised.
ScriptFailed(cause) == [ok |-> FALSE, error |-> Error("Script generation failed", cause, 0)]

\* generate_script_with_deepseek, lines 94-170
generate_script_with_deepseek(resp, duration, segments) ==
    LET segment_duration == TrueDiv(duration, segments)
    IN  IF resp.status_code # 200
        THEN ScriptFailed("503: DeepSeek API error")
        ELSE IF ~JsonLoadsOk(resp) /\ ~FenceFound(resp)
        THEN ScriptFailed("500: Failed to parse script JSON")
        ELSE IF ~JsonLoadsOk(resp) /\ ~resp.valid
        THEN ScriptFailed("JSONDecodeError")
        ELSE IF "segments" \notin DOMAIN resp.json
        THEN ScriptFailed("KeyError: segments")
        ELSE LET payload == resp.json.segments
                 bad     == FirstBadSegment(payload, 1)
             IN  IF bad # 0
                 THEN ScriptFailed(MissingKey(payload[bad]))
                 ELSE [ok     |-> TRUE,
                       script |-> [segments       |-> ScriptSegments(payload, segment_duration),
                                   total_duration |-> ToFloat(duration)]]

VARIABLES
    db,        \* db.video_generations: id -> None or Some(document)
    handler,   \* create_video_generation call i: "idle", "inserting", "inserted", "returned"
    response,  \* what call i answered: None or Some([code, ...])
    pc,        \* process_video_generation(i): position of the background task
    reply,     \* the script provider's answer it is working on: None or Some(answer)
    script,    \* its local variable script: None or Some(VideoScript)
    exc,       \* the exception its except clause caught: None or the message
    tasks,     \* the tasks of its asyncio.gather, in argument order
    files,     \* asset files that exist: <<"image" | "audio" | "wav", video_id, segment_id>>
    videos,    \* VIDEOS_DIR/<id>.mp4: "absent", "partial" or "complete"
    deletes,   \* asset files deleted from outside so far
    audio_len, \* audio path -> the duration AudioFileClip measures on the file
    clips,     \* create_video_from_assets(i): its list clips when it left the loop
    handles,   \* the clip handles it opened and had not closed when it returned or raised
    answer,    \* what a read endpoint is answering: None or Some(response)
    video_generation, \* the handler's local video_generation (line 398): None or Some(document)
    footprint, \* the record and the files the steps of pipeline i have read or written
    concurrent, \* the most tasks of gather(i) that were in progress at one time so far
    silent_audio \* WAV path -> len(silent_audio) of the array last written there (line 264)

vars == <<db, handler, response, pc, reply, script, exc, tasks, files, videos, deletes,
          audio_len, clips, handles, answer, video_generation, footprint,
          concurrent, silent_audio>>

Doc(i) == db[i][1]

Init ==
    /\ db = [i \in Ids |-> None]
    /\ handler = [i \in Ids |-> "idle"]
    /\ response = [i \in Ids |-> None]
    /\ pc = [i \in Ids |-> "none"]
    /\ reply = [i \in Ids |-> None]
    /\ script = [i \in Ids |-> None]
    /\ exc = [i \in Ids |-> None]
    /\ tasks = [i \in Ids |-> <<>>]
    /\ files = {}
    /\ videos = [i \in Ids |-> "absent"]
    /\ deletes = 0
    /\ audio_len = [p \in {} |-> None]
    /\ clips = [i \in Ids |-> <<>>]
    /\ handles = [i \in Ids |-> {}]
    /\ answer = None
    /\ video_generation = [i \in Ids |-> None]
    /\ footprint = [i \in Ids |-> {}]
    /\ concurrent = [i \in Ids |-> 0]
    /\ silent_audio = [p \in {} |-> 0]

(***************************************************************************)
(* The event loop.  The tasks asyncio.gather creates are queued together   *)
(* and none of them contains an await that suspends, so once the first has *)
(* started they run one after another, in argument order, before any other *)
(* coroutine gets the loop.                                                *)
(***************************************************************************)
\* A task has resolved when its coroutine has returned the path ("done": both
\* the provider branch and the placeholder return the same path) or raised.
Resolved(t) == t \in {"done", "raised"}

\* Mutant of TaskBlockOpen: the tasks give up the loop while they wait for
\* their providers.
TaskBlockYielding(j) == FALSE

TaskBlockOpen(j) ==
    /\ \E k \in DOMAIN tasks[j] : tasks[j][k] # "pending"
    /\ \E k \in DOMAIN tasks[j] : ~Resolved(tasks[j][k])

\* requests.post has returned and the answer is being parsed (lines 138-166)
Parsing(j) == pc[j] = "parse"

LoopFree == \A j \in Ids : ~TaskBlockOpen(j) /\ ~Parsing(j)

\* datetime.utcnow() at line 78, read when the handler builds its document:
\* later calls get later times.
Now == Cardinality({ j \in DOMAIN handler : handler[j] # "idle" }) + 1

(***************************************************************************)
(* create_video_generation, lines 395-415.  FastAPI answers 422 to a body  *)
(* that is no VideoGenerationCreate before the handler runs.  The handler  *)
(* builds its document, created_at included (lines 398-402), calls         *)
(* insert_one and suspends (line 405); the store applies the insert later, *)
(* and inserts in flight in any order.  The ids are in the order of the    *)
(* calls.                                                                  *)
(***************************************************************************)
StartInsert(i, body) ==
    /\ LoopFree
    /\ handler[i] = "idle"
    /\ \A j \in 1..(i - 1) : handler[j] # "idle"
    /\ IF VideoGenerationCreateValid(body)
       THEN /\ video_generation' = [video_generation EXCEPT ![i] =
                   Some(VideoGeneration(i, VideoGenerationCreate(body), Now))]
            /\ handler' = [handler EXCEPT ![i] = "inserting"]
            /\ UNCHANGED response
       ELSE /\ response' = [response EXCEPT ![i] = Some([code |-> 422])]
            /\ handler' = [handler EXCEPT ![i] = "returned"]
            /\ UNCHANGED video_generation
    /\ UNCHANGED <<db, pc, reply, script, exc, tasks, files, videos, deletes>>
    /\ UNCHANGED <<audio_len, clips, handles, answer, footprint>>
    /\ UNCHANGED <<concurrent, silent_audio>>

\* line 405: the store applies insert_one(video_generation.dict()).  The
\* driver's worker thread does this, whoever holds the event loop.
InsertLands(i) ==
    /\ handler[i] = "inserting"
    /\ db' = [db EXCEPT ![i] = video_generation[i]]
    /\ handler' = [handler EXCEPT ![i] = "inserted"]
    /\ UNCHANGED <<response, pc, reply, script, exc, tasks, files, videos, deletes>>
    /\ UNCHANGED <<audio_len, clips, handles, answer, video_generation, footprint>>
    /\ UNCHANGED <<concurrent, silent_audio>>

\* The request the handler holds (its parameter request, lines 399-401).
RequestOf(i) ==
    [prompt   |-> video_generation[i][1].prompt,
     duration |-> video_generation[i][1].duration,
     segments |-> video_generation[i][1].segments]

\* Lines 407-415: VideoRequest(...) validates and raises inside the handler
\* (an unhandled pydantic error: 500); otherwise the task is added and the
\* handler's own VideoGeneration object is returned.
StartReturn(i) ==
    /\ LoopFree
    /\ handler[i] = "inserted"
    /\ handler' = [handler EXCEPT ![i] = "returned"]
    /\ IF VideoRequestValid(RequestOf(i))
       THEN /\ pc' = [pc EXCEPT ![i] = "scheduled"]
            /\ response' = [response EXCEPT ![i] =
                   Some([code |-> 200,
                         body |-> video_generation[i][1]])]
       ELSE /\ response' = [response EXCEPT ![i] = Some([code |-> 500])]
            /\ UNCHANGED pc
    /\ UNCHANGED <<db, reply, script, exc, tasks, files, videos, deletes>>
    /\ UNCHANGED <<audio_len, clips, handles, answer, video_generation, footprint>>
    /\ UNCHANGED <<concurrent, silent_audio>>

(***************************************************************************)
(* process_video_generation, lines 330-388.                                *)
(***************************************************************************)
\* The record of generation i, as something a step reads or writes.
RecordPath(i) == <<"record", i, 0>>

\* footprint after a step of pipeline i has read or written paths
Touch(i, paths) == [footprint EXCEPT ![i] = @ \cup paths]

\* Mutant of UpdateOne: every update also resets created_at.
UpdateOneRestamping(i, fields) ==
    [db EXCEPT ![i] = Some([f \in DOMAIN Doc(i) |->
                               IF f \in DOMAIN fields THEN fields[f]
                               ELSE IF f = "created_at" THEN 0 ELSE Doc(i)[f]])]

\* update_one({"id": video_id}, {"$set": fields})
UpdateOne(i, fields) ==
    [db EXCEPT ![i] = Some([f \in DOMAIN Doc(i) |->
                               IF f \in DOMAIN fields THEN fields[f] ELSE Doc(i)[f]])]

\* lines 333-337
SetGeneratingScript(i) ==
    /\ LoopFree
    /\ pc[i] = "scheduled"
    /\ db' = UpdateOne(i, [status |-> "generating_script"])
    /\ pc' = [pc EXCEPT ![i] = "script"]
    /\ UNCHANGED <<handler, response, reply, script, exc, tasks, files, videos, deletes>>
    /\ UNCHANGED <<audio_len, clips, handles, answer, video_generation>>
    /\ footprint' = Touch(i, {RecordPath(i)})
    /\ UNCHANGED <<concurrent, silent_audio>>

\* lines 125-136: requests.post returns the provider's answer
ScriptReply(i, resp) ==
    /\ LoopFree
    /\ pc[i] = "script"
    /\ reply' = [reply EXCEPT ![i] = Some(resp)]
    /\ pc' = [pc EXCEPT ![i] = "parse"]
    /\ UNCHANGED <<db, handler, response, script, exc, tasks, files, videos, deletes>>
    /\ UNCHANGED <<audio_len, clips, handles, answer, video_generation, footprint>>
    /\ UNCHANGED <<concurrent, silent_audio>>

\* lines 138-170 and 340: the call either binds script or raises into line 383
ParseScript(i) ==
    /\ pc[i] = "parse"
    /\ LET r == generate_script_with_deepseek(reply[i][1], RequestOf(i).duration,
                                              RequestOf(i).segments)
       IN  IF r.ok
           THEN /\ script' = [script EXCEPT ![i] = Some(r.script)]
                /\ pc' = [pc EXCEPT ![i] = "store_script"]
                /\ UNCHANGED exc
           ELSE /\ exc' = [exc EXCEPT ![i] = Some(r.error)]
                /\ pc' = [pc EXCEPT ![i] = "except"]
                /\ UNCHANGED script
    /\ UNCHANGED <<db, handler, response, reply, tasks, files, videos, deletes>>
    /\ UNCHANGED <<audio_len, clips, handles, answer, video_generation, footprint>>
    /\ UNCHANGED <<concurrent, silent_audio>>

NSegments(i) == Len(script[i][1].segments)

\* Mutant of ScriptFields: the status written with the script skips a stage.
ScriptFieldsSkipping(i) == [script |-> script[i], status |-> "creating_video"]

\* Mutant of ScriptFields: the stage is advanced without the script.
ScriptFieldsStatusOnly(i) == [status |-> "generating_assets"]

\* What line 347 sets.
ScriptFields(i) == [script |-> script[i], status |-> "generating_assets"]

\* lines 344-348: the update with the script; the pipeline gives the loop
\* away while it awaits update_one.
StoreScript(i) ==
    /\ LoopFree
    /\ pc[i] = "store_script"
    /\ db' = UpdateOne(i, ScriptFields(i))
    /\ pc' = [pc EXCEPT ![i] = "create_tasks"]
    /\ reply' = [reply EXCEPT ![i] = None]
    /\ UNCHANGED <<handler, response, script, exc, tasks, files, videos, deletes>>
    /\ UNCHANGED <<audio_len, clips, handles, answer, video_generation>>
    /\ footprint' = Touch(i, {RecordPath(i)})
    /\ UNCHANGED <<concurrent, silent_audio>>

\* lines 350-365, in the pipeline's next turn: one image and one audio
\* coroutine per segment, handed to gather as (*image_tasks, *audio_tasks).
CreateTasks(i) ==
    /\ LoopFree
    /\ pc[i] = "create_tasks"
    /\ tasks' = [tasks EXCEPT ![i] = [k \in 1..(2 * NSegments(i)) |-> "pending"]]
    /\ pc' = [pc EXCEPT ![i] = "gather"]
    /\ UNCHANGED <<db, handler, response, reply, script, exc, files, videos, deletes>>
    /\ UNCHANGED <<audio_len, clips, handles, answer, video_generation, footprint>>
    /\ UNCHANGED <<concurrent, silent_audio>>

TaskKind(i, k) == IF k <= NSegments(i) THEN "image" ELSE "audio"

TaskSegment(i, k) ==
    script[i][1].segments[IF k <= NSegments(i) THEN k ELSE k - NSegments(i)].segment_id

\* Mutant of AssetPath: the segment is left out of the file name.
AssetPathUnkeyed(kind, video_id, segment_id) == <<kind, video_id, 0>>

\* IMAGES_DIR / f"{video_id}_segment_{segment_id}.jpg" (lines 193, 218, 287),
\* AUDIO_DIR / f"{video_id}_segment_{segment_id}.mp3" (lines 236, 267, 288),
\* AUDIO_DIR / f"{video_id}_segment_{segment_id}.wav" (line 263)
AssetPath(kind, video_id, segment_id) == <<kind, video_id, segment_id>>

TaskPath(i, k) == AssetPath(TaskKind(i, k), i, TaskSegment(i, k))

\* The tasks of gather(i) that have started and not yet returned or raised
InProgress(ts) == { k \in DOMAIN ts : ts[k] \in {"running", "in_fallback"} }

\* A task starts when the tasks before it have resolved, and when no other
\* pipeline holds the loop: none is inside its own block of tasks and none
\* is between requests.post and the end of the parsing (lines 125-166).
TaskStart(i, k) ==
    /\ pc[i] = "gather"
    /\ \A j \in Ids \ {i} : ~TaskBlockOpen(j) /\ ~Parsing(j)
    /\ k \in DOMAIN tasks[i]
    /\ tasks[i][k] = "pending"
    /\ \A m \in 1..(k - 1) : Resolved(tasks[i][m])
    /\ tasks' = [tasks EXCEPT ![i][k] = "running"]
    /\ concurrent' = [concurrent EXCEPT ![i] =
                         IF Cardinality(InProgress(tasks'[i])) > @
                         THEN Cardinality(InProgress(tasks'[i])) ELSE @]
    /\ UNCHANGED <<db, handler, response, pc, reply, script, exc, files, videos, deletes>>
    /\ UNCHANGED <<audio_len, clips, handles, answer, video_generation, footprint>>
    /\ UNCHANGED silent_audio

\* How the try block of an asset function ends (lines 173-198, 228-239): it
\* returns the path of the file it wrote ("ok"); the provider call or the
\* decoding raises before the file is opened ("error"); or the write of
\* lines 195-196, or stream_to_file at line 237, raises after it has created
\* the file ("write_error").  The except clause catches both kinds of error.
ProviderOutcomes == {"ok", "error", "write_error"}

\* Mutant of generate_image_with_dalle: an error of the try block is raised
\* to the caller instead of being handed to the placeholder.
generate_image_no_fallback(outcome) == IF outcome = "ok" THEN "done" ELSE "raised"

\* generate_image_with_dalle, lines 172-203: the provider call and the write
\* of the file, or the except clause that awaits create_placeholder_image.
generate_image_with_dalle(outcome) == IF outcome = "ok" THEN "done" ELSE "in_fallback"

\* Mutant of generate_audio_with_tts: no placeholder on an error.
generate_audio_no_fallback(outcome) == IF outcome = "ok" THEN "done" ELSE "raised"

\* generate_audio_with_tts, lines 227-244
generate_audio_with_tts(outcome) == IF outcome = "ok" THEN "done" ELSE "in_fallback"

\* create_placeholder_image, lines 205-225
create_placeholder_image(fallback_ok) == IF fallback_ok THEN "done" ELSE "raised"

\* create_placeholder_audio, lines 246-279
create_placeholder_audio(fallback_ok) == IF fallback_ok THEN "done" ELSE "raised"

\* lines 195-196 and 237: the files after the try block has ended.  The file
\* at path exists once open() or stream_to_file has created it, whether or
\* not the write went through.
ProviderFiles(fs, path, outcome) == IF outcome = "error" THEN fs ELSE fs \cup {path}

\* lines 193-196 and 236-237: the paths the try block has written
ProviderTouches(path, outcome) == IF outcome = "error" THEN {} ELSE {path}

(***************************************************************************)
(* The duration fields are Python floats: segment_duration is the double   *)
(* nearest duration / segments (line 97), which the model names by that    *)
(* fraction, and total_duration is float(duration).  Their sum is taken in *)
(* double arithmetic.  A double is written here in binary fixed point with *)
(* 52 bits after the point, whole + hi / 2^26 + lo / 2^52; a double of     *)
(* magnitude 2^k has 52 - k of them significant.  The Field bounds of      *)
(* lines 57-58 make every duration / segments at least 1 and every         *)
(* denominator at most 10.  The placeholder audio multiplies doubles too   *)
(* (line 259).                                                             *)
(***************************************************************************)
\* 2^26: hi and lo hold 26 bits each
Radix == 67108864

RECURSIVE Log2(_)
Log2(n) == IF n <= 1 THEN 0 ELSE 1 + Log2(n \div 2)

RECURSIVE TwoTo(_)
TwoTo(k) == IF k = 0 THEN 1 ELSE 2 * TwoTo(k - 1)

\* The element of a set of one: an argument is worked out once, before
\* the operator uses it.
Only(S) == CHOOSE v \in S : TRUE

\* x with its last bits, those below unit, cut and rounded
RoundAt(x, unit, rem, b) ==
    LET cut  == x.lo % unit
        odd  == (x.lo \div unit) % 2 = 1
        up   == IF unit = 1
                THEN 2 * rem > b \/ (2 * rem = b /\ odd)
                ELSE \/ 2 * cut > unit
                     \/ 2 * cut = unit /\ (rem > 0 \/ odd)
        lo   == x.lo - cut + (IF up THEN unit ELSE 0)
        hi   == x.hi + lo \div Radix
    IN  [whole |-> x.whole + hi \div Radix, hi |-> hi % Radix, lo |-> lo % Radix]

\* Round to nearest, ties to even, the value x + (rem / b) / 2^52 to a
\* double: with k the magnitude of x.whole, the last k bits of lo are cut.
RoundHalfEven(x, rem, b) ==
    Only({ Only({ RoundAt(v, unit, rem, b) : unit \in {TwoTo(Log2(v.whole))} }) : v \in {x} })

FloatOfInt(n) == [whole |-> n, hi |-> 0, lo |-> 0]

\* a / b for integers a >= b > 0, or a = 0
FloatDiv(a, b) ==
    LET r0 == a % b
        r1 == (r0 * Radix) % b
        r2 == (r1 * Radix) % b
    IN  Only({ RoundHalfEven([whole |-> a \div b,
                              hi    |-> (r0 * Radix) \div b,
                              lo    |-> (r1 * Radix) \div b], rem, b) : rem \in {r2} })

\* The double a duration of the model stands for.
Double(seconds) == FloatDiv(seconds.num, seconds.den)

\* x + y
FloatAdd(x, y) ==
    Only({ LET lo == v.lo + w.lo
               hi == v.hi + w.hi + lo \div Radix
           IN  RoundHalfEven([whole |-> v.whole + w.whole + hi \div Radix,
                              hi    |-> hi % Radix,
                              lo    |-> lo % Radix], 0, 1) : v \in {x}, w \in {y} })

\* Half of Radix's bits: a limb is multiplied in two halves
HalfRadix == 8192

\* n * x for an integer 0 <= n < 2^16 and a double x, the product below 2^26
FloatMulInt(n, x) ==
    Only({ LET p0 == n * (v.lo % HalfRadix)
               p1 == n * (v.lo \div HalfRadix) + p0 \div HalfRadix
               q0 == n * (v.hi % HalfRadix) + p1 \div HalfRadix
               q1 == n * (v.hi \div HalfRadix) + q0 \div HalfRadix
           IN  RoundHalfEven([whole |-> n * v.whole + q1 \div HalfRadix,
                              hi    |-> (q1 % HalfRadix) * HalfRadix + (q0 % HalfRadix),
                              lo    |-> (p1 % HalfRadix) * HalfRadix + (p0 % HalfRadix)],
                             0, 1) : v \in {x} })

\* int(x) for a double x >= 0
IntOfFloat(x) == x.whole

\* len(text.split()) for the narration texts of the model
Words(text) ==
    CASE text = "" -> 0
      [] text = "   " -> 0
      [] text = "tides" -> 1
      [] text = "the  moon   pulls" -> 3
      [] text = "the moon pulls the sea" -> 5
      [] text = "the moon pulls the sea twice daily" -> 7
      [] text = "the moon pulls the sea twice a day" -> 8
      [] text = "the moon pulls the sea twice in every single day" -> 10
      [] text = "Hello, this is a test of the text to speech functionality." -> 11
      [] text = "the moon pulls the sea toward it twice in every single day and night" -> 14

\* The length of the speech the TTS provider returns for a text, at 100
\* words a minute.
SpeechSeconds(text) == TrueDiv(3 * Words(text), 5)

\* lines 254-255: duration = max(3, words / 2.5), the double nearest
\* words / 2.5 when that is more than 3 and the integer 3 otherwise
PlaceholderSeconds(text) ==
    IF 2 * Words(text) > 15 THEN TrueDiv(2 * Words(text), 5) ELSE ToFloat(3)

\* line 258
SampleRate == 44100

\* line 259: samples = int(sample_rate * duration), the product a double
\* rounded to nearest before int() cuts its fraction off
PlaceholderSamples(text) ==
    LET duration == PlaceholderSeconds(text)
    IN  IntOfFloat(FloatMulInt(SampleRate, Double(duration)))

\* samples of an mp3 frame
Mp3Frame == 1152

\* lines 267-270 and 294: the lengths AudioFileClip may read from the mp3
\* file ffmpeg encodes from a WAV file of that many samples.  ffmpeg and
\* moviepy decide it, not the code: it is the length of the samples or that
\* of the whole mp3 frames they are encoded in.
PlaceholderFileSeconds(samples) ==
    { TrueDiv(samples, SampleRate),
      TrueDiv(((samples + Mp3Frame - 1) \div Mp3Frame) * Mp3Frame, SampleRate) }

\* line 264: the WAV files written so far, after one more write
WriteWav(wavs, path, samples) ==
    [q \in DOMAIN wavs \cup {path} |-> IF q = path THEN samples ELSE wavs[q]]

TaskText(i, k) ==
    script[i][1].segments[IF k <= NSegments(i) THEN k ELSE k - NSegments(i)].content

\* The file system after a write of the audio file at path.
WriteAudio(lens, path, seconds) ==
    [q \in DOMAIN lens \cup {path} |-> IF q = path THEN seconds ELSE lens[q]]

\* The audio files after the try block of generate_audio_with_tts has ended
\* on the file at path: the speech of text when it was written in full; no
\* playable audio when the write broke off; as before when it never began.
ProviderAudio(lens, path, text, outcome) ==
    IF outcome = "ok" THEN WriteAudio(lens, path, SpeechSeconds(text))
    ELSE IF outcome = "write_error" THEN [q \in DOMAIN lens \ {path} |-> lens[q]]
    ELSE lens

ProviderReturn(i, k, outcome) ==
    /\ k \in DOMAIN tasks[i]
    /\ tasks[i][k] = "running"
    /\ LET t == IF TaskKind(i, k) = "image"
                THEN generate_image_with_dalle(outcome)
                ELSE generate_audio_with_tts(outcome)
       IN  /\ tasks' = [tasks EXCEPT ![i][k] = t]
           /\ files' = ProviderFiles(files, TaskPath(i, k), outcome)
           /\ audio_len' = IF TaskKind(i, k) = "audio"
                           THEN ProviderAudio(audio_len, TaskPath(i, k), TaskText(i, k), outcome)
                           ELSE audio_len
    /\ UNCHANGED <<db, handler, response, pc, reply, script, exc, videos, deletes>>
    /\ UNCHANGED <<clips, handles, answer, video_generation>>
    /\ footprint' = Touch(i, ProviderTouches(TaskPath(i, k), outcome))
    /\ UNCHANGED <<concurrent, silent_audio>>

\* How a placeholder ends: it writes its file ("ok"); it raises with no file
\* written ("error": an import, the drawing, the write of the WAV file at
\* line 264); or, for audio, the ffmpeg run of lines 268-270 raises
\* ("ffmpeg_error"), with the WAV file written and not yet unlinked.
FallbackOutcomes == {"ok", "error", "ffmpeg_error"}

\* lines 263-273: the files a placeholder that raises leaves behind
LeftBehind(video_id, segment_id, outcome) ==
    IF outcome = "ffmpeg_error" THEN {AssetPath("wav", video_id, segment_id)} ELSE {}

\* The files after a placeholder of kind has ended with outcome.  The audio
\* placeholder that works unlinks the WAV file it wrote (line 273), which
\* is also the one an earlier failed call left at that path.
PlaceholderFiles(fs, kind, video_id, segment_id, outcome) ==
    IF outcome = "ok"
    THEN (IF kind = "audio" THEN fs \ {AssetPath("wav", video_id, segment_id)} ELSE fs)
             \cup {AssetPath(kind, video_id, segment_id)}
    ELSE fs \cup LeftBehind(video_id, segment_id, outcome)

\* The files a placeholder has written, read or removed when it ends: its
\* image (line 219); or the WAV file (line 264), read by ffmpeg (line 268)
\* and unlinked (line 273), and the mp3 file ffmpeg writes.
PlaceholderTouches(kind, video_id, segment_id, outcome) ==
    IF outcome = "ok"
    THEN (IF kind = "audio" THEN {AssetPath("wav", video_id, segment_id)} ELSE {})
             \cup {AssetPath(kind, video_id, segment_id)}
    ELSE LeftBehind(video_id, segment_id, outcome)

FallbackReturn(i, k, outcome) ==
    /\ k \in DOMAIN tasks[i]
    /\ tasks[i][k] = "in_fallback"
    /\ outcome = "ffmpeg_error" => TaskKind(i, k) = "audio"
    /\ LET t == IF TaskKind(i, k) = "image"
                THEN create_placeholder_image(outcome = "ok")
                ELSE create_placeholder_audio(outcome = "ok")
       IN  /\ tasks' = [tasks EXCEPT ![i][k] = t]
           /\ files' = PlaceholderFiles(files, TaskKind(i, k), i, TaskSegment(i, k), outcome)
           /\ IF outcome = "ok" /\ TaskKind(i, k) = "audio"
              THEN \E seconds \in PlaceholderFileSeconds(PlaceholderSamples(TaskText(i, k))) :
                      audio_len' = WriteAudio(audio_len, TaskPath(i, k), seconds)
              ELSE audio_len' = audio_len
           /\ silent_audio' = IF TaskKind(i, k) = "audio" /\ outcome # "error"
                              THEN WriteWav(silent_audio,
                                            AssetPath("wav", i, TaskSegment(i, k)),
                                            PlaceholderSamples(TaskText(i, k)))
                              ELSE silent_audio
    /\ UNCHANGED <<db, handler, response, pc, reply, script, exc, videos, deletes>>
    /\ UNCHANGED <<clips, handles, answer, video_generation>>
    /\ footprint' = Touch(i, PlaceholderTouches(TaskKind(i, k), i, TaskSegment(i, k), outcome))
    /\ UNCHANGED concurrent

\* line 365: gather without return_exceptions resumes its awaiter when every
\* task has resolved or as soon as one has raised.  The callback that does
\* so needs the loop, which the tasks hold until the last has run.
GatherResumes(ts) ==
    \/ \A k \in DOMAIN ts : Resolved(ts[k])
    \/ \E k \in DOMAIN ts : ts[k] = "raised"

\* The exception gather hands to its awaiter: that of the first task that raised.
RECURSIVE FirstRaised(_, _)
FirstRaised(ts, k) ==
    IF k > Len(ts) THEN 0
    ELSE IF ts[k] = "raised" THEN k ELSE FirstRaised(ts, k + 1)

AssetError(kind) ==
    IF kind = "image"
    THEN Error("Image generation completely failed", "fallback", 0)
    ELSE Error("Audio generation completely failed", "fallback", 0)

\* lines 365-371: gather returns once every task has resolved; then the
\* update to creating_video, or the exception goes to line 383.
GatherReturn(i) ==
    /\ LoopFree
    /\ pc[i] = "gather"
    /\ GatherResumes(tasks[i])
    /\ LET r == FirstRaised(tasks[i], 1)
       IN  IF r = 0
           THEN /\ db' = UpdateOne(i, [status |-> "creating_video"])
                /\ pc' = [pc EXCEPT ![i] = "assemble"]
                /\ UNCHANGED exc
           ELSE /\ exc' = [exc EXCEPT ![i] = Some(AssetError(TaskKind(i, r)))]
                /\ pc' = [pc EXCEPT ![i] = "except"]
                /\ UNCHANGED db
    /\ tasks' = [tasks EXCEPT ![i] = <<>>]
    /\ UNCHANGED <<handler, response, reply, script, files, videos, deletes>>
    /\ UNCHANGED <<audio_len, clips, handles, answer, video_generation>>
    /\ footprint' = IF FirstRaised(tasks[i], 1) = 0 THEN Touch(i, {RecordPath(i)}) ELSE footprint
    /\ UNCHANGED <<concurrent, silent_audio>>

(***************************************************************************)
(* create_video_from_assets, lines 281-328.  The loop checks the segments  *)
(* in script order and raises at the first one with a file missing; the    *)
(* output file is written only after the loop.  render is what moviepy     *)
(* does, render.at being the call that raises:                             *)
(*   "ok"              none: the file is written whole                     *)
(*   "audio_error"     AudioFileClip (line 294) in iteration               *)
(*                     render.segment                                      *)
(*   "image_error"     ImageClip (line 298) in that iteration, its         *)
(*                     AudioFileClip already open                          *)
(*   "set_audio_error" set_audio (line 299) in that iteration, its         *)
(*                     AudioFileClip and its ImageClip already open        *)
(*   "load_error"      concatenate_videoclips (line 304): no output        *)
(*   "open_error"      write_videofile (line 308) before it has written    *)
(*                     anything: no output                                 *)
(*   "temp_error"      write_videofile while it writes the temporary       *)
(*                     audio file, which it does first: no output          *)
(*   "write_error"     write_videofile while it writes the video: a        *)
(*                     partial file                                        *)
(* concatenate_videoclips raises on an empty list of clips.                *)
(***************************************************************************)
LoadErrors == {"audio_error", "image_error", "set_audio_error"}

WriteErrors == {"open_error", "temp_error", "write_error"}

RenderOutcomes ==
    { [at |-> a, segment |-> 0] : a \in {"ok", "load_error"} \cup WriteErrors }
        \cup { [at |-> a, segment |-> n] : a \in LoadErrors, n \in 1..MaxPayload }

Rendered == [at |-> "ok", segment |-> 0]

\* Mutant of SegmentAssetsExist: only the image is looked for.
SegmentImageExists(video_id, segment_id, fs) ==
    AssetPath("image", video_id, segment_id) \in fs

\* line 290
SegmentAssetsExist(video_id, segment_id, fs) ==
    /\ AssetPath("image", video_id, segment_id) \in fs
    /\ AssetPath("audio", video_id, segment_id) \in fs

RECURSIVE FirstMissing(_, _, _, _)
FirstMissing(video_id, segs, fs, n) ==
    IF n > Len(segs) THEN 0
    ELSE IF ~SegmentAssetsExist(video_id, segs[n].segment_id, fs) THEN n
         ELSE FirstMissing(video_id, segs, fs, n + 1)

\* The iteration of the loop that a moviepy error ends (0: none): the script
\* may have fewer segments than render.segment.
Unreadable(segs, render) ==
    IF render.at \in LoadErrors /\ render.segment <= Len(segs)
    THEN render.segment ELSE 0

\* The iteration in which the loop of lines 286-301 is left by an exception
\* (0: it runs to its end): the first with a file missing or a clip that
\* cannot be loaded.
LoopLeftAt(video_id, segs, fs, render) ==
    LET missing    == FirstMissing(video_id, segs, fs, 1)
        unreadable == Unreadable(segs, render)
    IN  IF missing = 0 THEN unreadable
        ELSE IF unreadable = 0 \/ missing <= unreadable THEN missing
        ELSE unreadable

VideoFailed(cause, segment, video) ==
    [ok |-> FALSE, error |-> Error("Video creation failed", cause, segment), video |-> video]

\* Mutant of create_video_from_assets: a failure while writing is swallowed
\* and the path of the unfinished file is returned.
create_video_swallowing(video_id, vscript, fs, video, render) ==
    LET missing == FirstMissing(video_id, vscript.segments, fs, 1)
        left    == LoopLeftAt(video_id, vscript.segments, fs, render)
    IN  IF left # 0 /\ left = missing
        THEN VideoFailed("500: Missing assets for segment",
                         vscript.segments[missing].segment_id, video)
        ELSE IF left # 0 \/ Len(vscript.segments) = 0 \/ render.at = "load_error"
        THEN VideoFailed("moviepy error", 0, video)
        ELSE IF render.at \in WriteErrors
        THEN [ok |-> TRUE, video |-> IF render.at = "write_error" THEN "partial" ELSE video]
        ELSE [ok |-> TRUE, video |-> "complete"]

create_video_from_assets(video_id, vscript, fs, video, render) ==
    LET missing == FirstMissing(video_id, vscript.segments, fs, 1)
        left    == LoopLeftAt(video_id, vscript.segments, fs, render)
    IN  IF left # 0 /\ left = missing
        THEN VideoFailed("500: Missing assets for segment",
                         vscript.segments[missing].segment_id, video)
        ELSE IF left # 0 \/ Len(vscript.segments) = 0 \/ render.at = "load_error"
        THEN VideoFailed("moviepy error", 0, video)
        ELSE IF render.at \in WriteErrors
        THEN VideoFailed("moviepy error", 0,
                         IF render.at = "write_error" THEN "partial" ELSE video)
        ELSE [ok |-> TRUE, video |-> "complete"]

\* Mutant of ClipDuration: the clip lasts as long as the script says.
ClipDurationNominal(video_id, seg, lens) == seg.duration

\* lines 294-298: actual_duration = audio_clip.duration is the duration of
\* the image clip.  Line 290 lets only files that exist come this far; a
\* file that is not there has no duration.
ClipDuration(video_id, seg, lens) ==
    LET audio_path == AssetPath("audio", video_id, seg.segment_id)
    IN  IF audio_path \in DOMAIN lens THEN lens[audio_path] ELSE None

\* lines 293-301: the clip appended for a segment
SegmentClip(video_id, seg, lens) ==
    [segment_id |-> seg.segment_id,
     image      |-> AssetPath("image", video_id, seg.segment_id),
     audio      |-> AssetPath("audio", video_id, seg.segment_id),
     duration   |-> ClipDuration(video_id, seg, lens)]

\* Mutant of LoadedClips: the clips are appended last segment first.
LoadedClipsReversed(video_id, vscript, fs, lens, render) ==
    LET left == LoopLeftAt(video_id, vscript.segments, fs, render)
        n    == IF left = 0 THEN Len(vscript.segments) ELSE left - 1
    IN  [k \in 1..n |-> SegmentClip(video_id, vscript.segments[n + 1 - k], lens)]

\* lines 284-301: the list clips when the loop is left, by its end, by the
\* raise of line 291 or by an exception of lines 294-299: one clip per
\* iteration before the one that raised, in the order of script.segments.
LoadedClips(video_id, vscript, fs, lens, render) ==
    LET left == LoopLeftAt(video_id, vscript.segments, fs, render)
        n    == IF left = 0 THEN Len(vscript.segments) ELSE left - 1
    IN  [k \in 1..n |-> SegmentClip(video_id, vscript.segments[k], lens)]

\* temp_audiofile='/tmp/temp-audio.m4a', line 313: one path for every call
TempAudioPath == <<"temp-audio.m4a", 0, 0>>

\* The AudioFileClip handles of the clips of a list
AudioHandles(cl) == { <<"audio", cl[k].segment_id>> : k \in 1..Len(cl) }

\* The handles of the clips of a list: an AudioFileClip and an ImageClip each.
ClipHandles(cl) ==
    AudioHandles(cl) \cup { <<"image", cl[k].segment_id>> : k \in 1..Len(cl) }

\* The handles still open when create_video_from_assets returns or raises.
\* Lines 319-322 call close() on final_video and on every clip of the list
\* (the image clips), and are reached only when write_videofile has
\* returned; no line closes an AudioFileClip, and the close() of an image
\* clip is the base class's, which releases nothing else.  The except
\* clause of lines 326-328 closes nothing.  When ImageClip raises, the
\* AudioFileClip of that iteration is open and in no clip of the list; when
\* set_audio raises, so is its ImageClip.
OpenHandles(video_id, vscript, fs, lens, render) ==
    LET cl      == LoadedClips(video_id, vscript, fs, lens, render)
        missing == FirstMissing(video_id, vscript.segments, fs, 1)
        left    == LoopLeftAt(video_id, vscript.segments, fs, render)
    IN  IF left # 0 /\ left # missing /\ render.at = "image_error"
        THEN ClipHandles(cl) \cup { <<"audio", vscript.segments[left].segment_id>> }
        ELSE IF left # 0 /\ left # missing /\ render.at = "set_audio_error"
        THEN ClipHandles(cl) \cup { <<"audio", vscript.segments[left].segment_id>>,
                                    <<"image", vscript.segments[left].segment_id>> }
        ELSE IF left # 0 \/ Len(vscript.segments) = 0 \/ render.at = "load_error"
        THEN ClipHandles(cl)
        ELSE IF render.at \in WriteErrors
        THEN ClipHandles(cl) \cup { <<"final", 0>> }
        ELSE AudioHandles(cl)

\* The files create_video_from_assets has tested with exists() (line 290:
\* the audio file only when the image file is there), loaded (lines 294,
\* 298) or written: once the loop has run to its end and the clips are
\* concatenated, write_videofile writes the temporary audio file (line 313)
\* and then the video file, unless it raises before.  A render that fails
\* in an iteration the script does not have fails nowhere.
AssemblyTouches(video_id, vscript, fs, render) ==
    LET segs == vscript.segments
        left == LoopLeftAt(video_id, segs, fs, render)
        last == IF left = 0 THEN Len(segs) ELSE left
        wrote == left = 0 /\ Len(segs) # 0 /\ render.at # "load_error"
    IN  { AssetPath("image", video_id, segs[k].segment_id) : k \in 1..last }
            \cup { AssetPath("audio", video_id, segs[k].segment_id) :
                     k \in { m \in 1..last :
                               AssetPath("image", video_id, segs[m].segment_id) \in fs } }
            \cup (IF wrote /\ render.at # "open_error"
                  THEN {TempAudioPath} ELSE {})
            \cup (IF wrote /\ render.at \notin {"open_error", "temp_error"}
                  THEN {<<"video", video_id, 0>>} ELSE {})

\* lines 373-375
Assemble(i, render) ==
    /\ LoopFree
    /\ pc[i] = "assemble"
    /\ clips' = [clips EXCEPT ![i] = LoadedClips(i, script[i][1], files, audio_len, render)]
    /\ handles' = [handles EXCEPT ![i] = OpenHandles(i, script[i][1], files, audio_len, render)]
    /\ LET r == create_video_from_assets(i, script[i][1], files, videos[i], render)
       IN  /\ videos' = [videos EXCEPT ![i] = r.video]
           /\ IF r.ok
              THEN /\ pc' = [pc EXCEPT ![i] = "store_video"]
                   /\ UNCHANGED exc
              ELSE /\ pc' = [pc EXCEPT ![i] = "except"]
                   /\ exc' = [exc EXCEPT ![i] = Some(r.error)]
    /\ footprint' = Touch(i, AssemblyTouches(i, script[i][1], files, render))
    /\ UNCHANGED <<db, handler, response, reply, script, tasks, files, deletes>>
    /\ UNCHANGED <<audio_len, answer, video_generation>>
    /\ UNCHANGED <<concurrent, silent_audio>>

\* f"/api/videos/{video_id}.mp4", line 375
VideoUrl(video_id) == <<"/api/videos", video_id>>

\* What line 380 sets.
CompletedFields(i) == [status |-> "completed", video_url |-> Some(VideoUrl(i))]

\* lines 377-381
SetCompleted(i) ==
    /\ LoopFree
    /\ pc[i] = "store_video"
    /\ db' = UpdateOne(i, CompletedFields(i))
    /\ pc' = [pc EXCEPT ![i] = "done"]
    /\ UNCHANGED <<handler, response, reply, script, exc, tasks, files, videos, deletes>>
    /\ UNCHANGED <<audio_len, clips, handles, answer, video_generation>>
    /\ footprint' = Touch(i, {RecordPath(i)})
    /\ UNCHANGED <<concurrent, silent_audio>>

\* Mutant of FailedFields: the message is not stored.
FailedFieldsNoError(i) == [status |-> "failed"]

\* What line 387 sets.
FailedFields(i) == [status |-> "failed", error |-> exc[i]]

\* lines 383-388
SetFailed(i) ==
    /\ LoopFree
    /\ pc[i] = "except"
    /\ db' = UpdateOne(i, FailedFields(i))
    /\ pc' = [pc EXCEPT ![i] = "done"]
    /\ reply' = [reply EXCEPT ![i] = None]
    /\ UNCHANGED <<handler, response, script, exc, tasks, files, videos, deletes>>
    /\ UNCHANGED <<audio_len, clips, handles, answer, video_generation>>
    /\ footprint' = Touch(i, {RecordPath(i)})
    /\ UNCHANGED <<concurrent, silent_audio>>

(***************************************************************************)
(* An outside process removes an asset file.  create_video_from_assets is  *)
(* the only reader of asset files, so a removal is taken at the point      *)
(* where it is first observable: when the owner is about to assemble.      *)
(***************************************************************************)
DeleteAsset(p) ==
    /\ deletes < MaxDeletes
    /\ p \in files
    /\ p[2] \in Ids
    /\ pc[p[2]] = "assemble"
    /\ files' = files \ {p}
    /\ audio_len' = [q \in DOMAIN audio_len \ {p} |-> audio_len[q]]
    /\ deletes' = deletes + 1
    /\ UNCHANGED <<db, handler, response, pc, reply, script, exc, tasks, videos>>
    /\ UNCHANGED <<clips, handles, answer, video_generation, footprint>>
    /\ UNCHANGED <<concurrent, silent_audio>>

Next ==
    \/ \E i \in Ids, body \in PipelineBodies : StartInsert(i, body)
    \/ \E i \in Ids : InsertLands(i)
    \/ \E i \in Ids : StartReturn(i)
    \/ \E i \in Ids : SetGeneratingScript(i)
    \/ \E i \in Ids : \E resp \in PipelineResponsesOf(i) : ScriptReply(i, resp)
    \/ \E i \in Ids : ParseScript(i)
    \/ \E i \in Ids : StoreScript(i)
    \/ \E i \in Ids : CreateTasks(i)
    \/ \E i \in Ids, k \in 1..(2 * MaxPayload) : TaskStart(i, k)
    \/ \E i \in Ids, k \in 1..(2 * MaxPayload), outcome \in ProviderOutcomes :
          ProviderReturn(i, k, outcome)
    \/ \E i \in Ids, k \in 1..(2 * MaxPayload), outcome \in FallbackOutcomes : FallbackReturn(i, k, outcome)
    \/ \E i \in Ids : GatherReturn(i)
    \/ \E i \in Ids, render \in RenderOutcomes : Assemble(i, render)
    \/ \E i \in Ids : SetCompleted(i)
    \/ \E i \in Ids : SetFailed(i)
    \/ \E p \in files : DeleteAsset(p)

Spec == Init /\ [][Next]_vars

(***************************************************************************)
(* The script generator on its own: one generation, requests over a range  *)
(* of valid (duration, segments), every answer of ScriptResponses.         *)
(***************************************************************************)
ScriptBodies ==
    { [prompt |-> "intro to tides", duration |-> d, segments |-> n] :
        d \in {10, 30, 45, 600}, n \in {1, 2, 3, 7, 10} }

\* Answers with as many segments as the larger requests of ScriptBodies ask for.
LongResponses ==
    { [status_code |-> 200, wrap |-> "json", valid |-> TRUE,
       json |-> [segments |-> UniformPayload(n)]] : n \in {3, 7, 10} }

NextScript ==
    \/ \E body \in ScriptBodies : StartInsert(1, body)
    \/ InsertLands(1)
    \/ StartReturn(1)
    \/ SetGeneratingScript(1)
    \/ \E resp \in ScriptResponses \cup LongResponses : ScriptReply(1, resp)
    \/ ParseScript(1)
    \/ StoreScript(1)

SpecScript == Init /\ [][NextScript]_vars

(***************************************************************************)
(* The request handler on its own, over every body of RequestBodies, up to *)
(* the first step of the pipeline it schedules.                            *)
(***************************************************************************)
NextRequest ==
    \/ \E i \in Ids, body \in RequestBodies : StartInsert(i, body)
    \/ \E i \in Ids : InsertLands(i)
    \/ \E i \in Ids : StartReturn(i)
    \/ \E i \in Ids : SetGeneratingScript(i)

SpecRequest == Init /\ [][NextRequest]_vars

(***************************************************************************)
(* The pipeline when only the image and audio providers fail: the script   *)
(* provider answers with a usable script, the placeholders and the         *)
(* renderer work, nobody removes files.  The event loop runs every ready   *)
(* callback, so each step that stays enabled is eventually taken.          *)
(***************************************************************************)
NextProviderFaults ==
    \/ \E i \in Ids, body \in PipelineBodies : StartInsert(i, body)
    \/ \E i \in Ids : InsertLands(i)
    \/ \E i \in Ids : StartReturn(i)
    \/ \E i \in Ids : SetGeneratingScript(i)
    \/ \E i \in Ids, resp \in GoodResponses : ScriptReply(i, resp)
    \/ \E i \in Ids : ParseScript(i)
    \/ \E i \in Ids : StoreScript(i)
    \/ \E i \in Ids : CreateTasks(i)
    \/ \E i \in Ids, k \in 1..(2 * MaxPayload) : TaskStart(i, k)
    \/ \E i \in Ids, k \in 1..(2 * MaxPayload), outcome \in ProviderOutcomes :
          ProviderReturn(i, k, outcome)
    \/ \E i \in Ids, k \in 1..(2 * MaxPayload) : FallbackReturn(i, k, "ok")
    \/ \E i \in Ids : GatherReturn(i)
    \/ \E i \in Ids : Assemble(i, Rendered)
    \/ \E i \in Ids : SetCompleted(i)

\* The steps of pipeline i and of its tasks, with the outside's answers.
PipelineStep(i) ==
    \/ SetGeneratingScript(i)
    \/ \E resp \in GoodResponses : ScriptReply(i, resp)
    \/ ParseScript(i)
    \/ StoreScript(i)
    \/ CreateTasks(i)
    \/ \E k \in 1..(2 * MaxPayload) : TaskStart(i, k)
    \/ \E k \in 1..(2 * MaxPayload), outcome \in ProviderOutcomes :
          ProviderReturn(i, k, outcome)
    \/ \E k \in 1..(2 * MaxPayload) : FallbackReturn(i, k, "ok")
    \/ GatherReturn(i)
    \/ Assemble(i, Rendered)
    \/ SetCompleted(i)

SpecProviderFaults ==
    Init /\ [][NextProviderFaults]_vars /\ \A i \in Ids : WF_vars(PipelineStep(i))

(***************************************************************************)
(* The read endpoints.  Each computes its answer from the store or the     *)
(* file system in one step of the event loop and changes neither; answer   *)
(* holds it until it has been sent.                                        *)
(***************************************************************************)
\* The ids a client asks about: those of the generations, and 0, an id no
\* call has created.
QueryIds == Ids \cup {0}

\* find_one({"id": video_id}), line 420
FindOne(store, video_id) ==
    IF video_id \in DOMAIN store THEN store[video_id] ELSE None

\* Mutant of get_video_status: an unknown id is answered with an empty record.
get_video_status_lenient(video_id, store) ==
    LET video == FindOne(store, video_id)
    IN  IF video = None
        THEN [code |-> 200, body |-> [id |-> video_id, status |-> "processing"]]
        ELSE [code |-> 200, body |-> video[1]]

\* get_video_status, lines 417-428
get_video_status(video_id, store) ==
    LET video == FindOne(store, video_id)
    IN  IF video = None
        THEN [code |-> 404, detail |-> "Video not found"]
        ELSE [code |-> 200, body |-> video[1]]

\* get_video_file, lines 442-453: VIDEOS_DIR/<video_id>.mp4 is served
\* whenever it exists; the record is not read.
get_video_file(video_id, vids) ==
    IF video_id \in DOMAIN vids /\ vids[video_id] # "absent"
    THEN [code |-> 200, file |-> vids[video_id]]
    ELSE [code |-> 404, detail |-> "Video file not found"]

GetVideoStatus(video_id) ==
    /\ LoopFree
    /\ answer = None
    /\ answer' = Some([op |-> "video-status", id |-> video_id,
                       response |-> get_video_status(video_id, db)])
    /\ UNCHANGED <<db, handler, response, pc, reply, script, exc, tasks, files, videos,
                   deletes, audio_len, clips, handles, video_generation, footprint>>
    /\ UNCHANGED <<concurrent, silent_audio>>

GetVideoFile(video_id) ==
    /\ LoopFree
    /\ answer = None
    /\ answer' = Some([op |-> "videos-file", id |-> video_id,
                       response |-> get_video_file(video_id, videos)])
    /\ UNCHANGED <<db, handler, response, pc, reply, script, exc, tasks, files, videos,
                   deletes, audio_len, clips, handles, video_generation, footprint>>
    /\ UNCHANGED <<concurrent, silent_audio>>

\* to_list(100), line 433
ListLimit == 100

\* find(): the documents of the collection, in the order of their insertion
Find(store) ==
    LET stored == { i \in DOMAIN store : store[i] # None }
        place  == [i \in stored |-> Cardinality({ j \in stored : j <= i })]
    IN  [k \in 1..Cardinality(stored) |-> store[CHOOSE i \in stored : place[i] = k][1]]

\* sort("created_at", -1): later created_at first; documents with the same
\* created_at stay in the order of the collection.
SortCreatedAtDesc(docs) ==
    LET place == [i \in 1..Len(docs) |->
                    1 + Cardinality({ j \in 1..Len(docs) :
                                        \/ docs[j].created_at > docs[i].created_at
                                        \/ docs[j].created_at = docs[i].created_at /\ j < i })]
    IN  [k \in 1..Len(docs) |-> docs[CHOOSE i \in 1..Len(docs) : place[i] = k]]

ToList(docs, limit) == SubSeq(docs, 1, IF Len(docs) < limit THEN Len(docs) ELSE limit)

\* VideoGeneration(**video), line 440: the fields of the class; pydantic
\* drops the keys it does not declare ("error").
VideoGenerationOf(video) ==
    [f \in {"id", "prompt", "duration", "segments", "status", "video_url", "script",
            "created_at"} |-> video[f]]

\* list_videos, lines 430-440
list_videos(store) ==
    LET found   == Find(store)
        videos_ == ToList(SortCreatedAtDesc(found), ListLimit)
    IN  [code |-> 200, body |-> [k \in 1..Len(videos_) |-> VideoGenerationOf(videos_[k])]]

ListVideos ==
    /\ LoopFree
    /\ answer = None
    /\ answer' = Some([op |-> "videos", id |-> 0, response |-> list_videos(db)])
    /\ UNCHANGED <<db, handler, response, pc, reply, script, exc, tasks, files, videos,
                   deletes, audio_len, clips, handles, video_generation, footprint>>
    /\ UNCHANGED <<concurrent, silent_audio>>

\* The handler resumes and its answer is sent.
Deliver ==
    /\ LoopFree
    /\ answer # None
    /\ answer' = None
    /\ UNCHANGED <<db, handler, response, pc, reply, script, exc, tasks, files, videos,
                   deletes, audio_len, clips, handles, video_generation, footprint>>
    /\ UNCHANGED <<concurrent, silent_audio>>

\* The pipelines with a client that reads.  get_video_status and list_videos
\* give the loop away while they await the store (lines 420, 433): the
\* answer is built from what the store returned, and the pipelines and the
\* create calls run on before it is sent.  The asset providers answer every
\* call here, and the renderer fails only while writing.
ReadRenders == { r \in RenderOutcomes : r.at \in {"ok", "write_error"} }

NextReads ==
    \/ \E i \in Ids, body \in PipelineBodies : StartInsert(i, body)
    \/ \E i \in Ids : InsertLands(i)
    \/ \E i \in Ids : StartReturn(i)
    \/ \E i \in Ids : SetGeneratingScript(i)
    \/ \E i \in Ids, resp \in PipelineResponses : ScriptReply(i, resp)
    \/ \E i \in Ids : ParseScript(i)
    \/ \E i \in Ids : StoreScript(i)
    \/ \E i \in Ids : CreateTasks(i)
    \/ \E i \in Ids, k \in 1..(2 * MaxPayload) : TaskStart(i, k)
    \/ \E i \in Ids, k \in 1..(2 * MaxPayload) : ProviderReturn(i, k, "ok")
    \/ \E i \in Ids : GatherReturn(i)
    \/ \E i \in Ids, render \in ReadRenders : Assemble(i, render)
    \/ \E i \in Ids : SetCompleted(i)
    \/ \E i \in Ids : SetFailed(i)
    \/ \E video_id \in QueryIds : GetVideoStatus(video_id)
    \/ \E video_id \in QueryIds : GetVideoFile(video_id)
    \/ ListVideos
    \/ Deliver

SpecReads == Init /\ [][NextReads]_vars

(***************************************************************************)
(* The routes POST /api/test-dalle and POST /api/test-tts, lines 465-481:  *)
(* each calls the generator of a pipeline's asset task with segment_id 1   *)
(* and video_id "test", and answers with the path or with the message of   *)
(* what was raised.  Neither suspends.  The video_id "test", which is no   *)
(* generation's id, is written 0.                                          *)
(***************************************************************************)
TestVideoId == 0

\* line 475: the default of test_tts's parameter text
TestTtsText == "Hello, this is a test of the text to speech functionality."

\* the texts test_tts is called with: its default and one of a single word
TestTexts == {TestTtsText, "tides"}

\* lines 468-472 and 477-481: the answer of a test route, the path or
\* str(e) of what the placeholder raised
TestAnswer(op, t, path) ==
    [op |-> op, id |-> TestVideoId,
     response |-> IF t = "done"
                  THEN [code |-> 200, status |-> "success", path |-> Some(path),
                        message |-> None]
                  ELSE [code |-> 200, status |-> "error", path |-> None,
                        message |-> Some(AssetError(path[1]))]]

test_dalle(provider, outcome) ==
    /\ LoopFree
    /\ answer = None
    /\ provider = "ok" => outcome = "ok"
    /\ outcome # "ffmpeg_error"
    /\ LET first == generate_image_with_dalle(provider)
           t     == IF first = "in_fallback" THEN create_placeholder_image(outcome = "ok")
                    ELSE first
           path  == AssetPath("image", TestVideoId, 1)
           tried == ProviderFiles(files, path, provider)
       IN  /\ files' = IF first = "in_fallback"
                       THEN PlaceholderFiles(tried, "image", TestVideoId, 1, outcome)
                       ELSE tried
           /\ answer' = Some(TestAnswer("test-dalle", t, path))
    /\ UNCHANGED <<db, handler, response, pc, reply, script, exc, tasks, videos, deletes,
                   audio_len, clips, handles, video_generation, footprint>>
    /\ UNCHANGED <<concurrent, silent_audio>>

test_tts(text, provider, outcome) ==
    /\ LoopFree
    /\ answer = None
    /\ provider = "ok" => outcome = "ok"
    /\ LET first == generate_audio_with_tts(provider)
           t     == IF first = "in_fallback" THEN create_placeholder_audio(outcome = "ok")
                    ELSE first
           path  == AssetPath("audio", TestVideoId, 1)
           tried == ProviderFiles(files, path, provider)
           heard == ProviderAudio(audio_len, path, text, provider)
       IN  /\ files' = IF first = "in_fallback"
                       THEN PlaceholderFiles(tried, "audio", TestVideoId, 1, outcome)
                       ELSE tried
           /\ IF first = "in_fallback" /\ outcome = "ok"
              THEN \E seconds \in PlaceholderFileSeconds(PlaceholderSamples(text)) :
                      audio_len' = WriteAudio(heard, path, seconds)
              ELSE audio_len' = heard
           /\ silent_audio' = IF first = "in_fallback" /\ outcome # "error"
                              THEN WriteWav(silent_audio, AssetPath("wav", TestVideoId, 1),
                                            PlaceholderSamples(text))
                              ELSE silent_audio
           /\ answer' = Some(TestAnswer("test-tts", t, path))
    /\ UNCHANGED <<db, handler, response, pc, reply, script, exc, tasks, videos, deletes,
                   clips, handles, video_generation, footprint>>
    /\ UNCHANGED concurrent

\* One generation beside the clients of the test routes.
NextTestRoutes ==
    \/ \E body \in PipelineBodies : StartInsert(1, body)
    \/ InsertLands(1)
    \/ StartReturn(1)
    \/ SetGeneratingScript(1)
    \/ \E resp \in PipelineResponses : ScriptReply(1, resp)
    \/ ParseScript(1)
    \/ StoreScript(1)
    \/ CreateTasks(1)
    \/ \E k \in 1..(2 * MaxPayload) : TaskStart(1, k)
    \/ \E k \in 1..(2 * MaxPayload), outcome \in ProviderOutcomes :
          ProviderReturn(1, k, outcome)
    \/ \E k \in 1..(2 * MaxPayload), outcome \in FallbackOutcomes : FallbackReturn(1, k, outcome)
    \/ GatherReturn(1)
    \/ \E render \in RenderOutcomes : Assemble(1, render)
    \/ SetCompleted(1)
    \/ SetFailed(1)
    \/ \E p \in files : DeleteAsset(p)
    \/ \E provider \in ProviderOutcomes, outcome \in FallbackOutcomes :
          test_dalle(provider, outcome)
    \/ \E text \in TestTexts, provider \in ProviderOutcomes, outcome \in FallbackOutcomes :
          test_tts(text, provider, outcome)
    \/ Deliver

SpecTestRoutes == Init /\ [][NextTestRoutes]_vars

(***************************************************************************)
(* A client that starts one generation after another and lists them.       *)
(***************************************************************************)
\* number of generations the listing client starts
MaxRecords == 101

ListIds == 1..MaxRecords

InitList ==
    /\ db = [i \in ListIds |-> None]
    /\ handler = [i \in ListIds |-> "idle"]
    /\ response = [i \in ListIds |-> None]
    /\ pc = [i \in ListIds |-> "none"]
    /\ reply = [i \in Ids |-> None]
    /\ script = [i \in Ids |-> None]
    /\ exc = [i \in Ids |-> None]
    /\ tasks = [i \in Ids |-> <<>>]
    /\ files = {}
    /\ videos = [i \in Ids |-> "absent"]
    /\ deletes = 0
    /\ audio_len = [p \in {} |-> None]
    /\ clips = [i \in Ids |-> <<>>]
    /\ handles = [i \in Ids |-> {}]
    /\ answer = None
    /\ video_generation = [i \in ListIds |-> None]
    /\ footprint = [i \in Ids |-> {}]
    /\ concurrent = [i \in Ids |-> 0]
    /\ silent_audio = [p \in {} |-> 0]

NextList ==
    \/ \E i \in ListIds :
          /\ \A j \in 1..(i - 1) : handler[j] = "returned"
          /\ StartInsert(i, [prompt |-> "intro to tides", duration |-> 30, segments |-> 2])
    \/ \E i \in ListIds : InsertLands(i)
    \/ \E i \in ListIds : StartReturn(i)
    \/ ListVideos
    \/ Deliver

SpecList == InitList /\ [][NextList]_vars

(***************************************************************************)
(*                              Properties                                 *)
(***************************************************************************)
Status(i) == Doc(i).status

Rank(st) ==
    CASE st = "processing"        -> 0
      [] st = "generating_script" -> 1
      [] st = "generating_assets" -> 2
      [] st = "creating_video"    -> 3
      [] st = "completed"         -> 4
      [] OTHER                    -> 5

Stored(i) == db[i] # None

\* C1: a record starts in processing, and whenever its status changes it
\* either moves to the next status of processing, generating_script,
\* generating_assets, creating_video, completed, or becomes failed; a failed
\* record's status does not change.
StatusMovesForward ==
    [][\A i \in Ids :
         /\ (~Stored(i) /\ Stored(i)') => Status(i)' = "processing"
         /\ (Stored(i) /\ Status(i)' # Status(i)) =>
               /\ Status(i) # "failed"
               /\ Status(i)' = "failed" \/ Rank(Status(i)') = Rank(Status(i)) + 1]_vars

\* A record has gone through every status up to completed.
SomeCompleted == \E i \in Ids : Stored(i) /\ Status(i) = "completed"

\* C2: an exception caught by the pipeline is caught in a non-terminal status;
\* the next thing the pipeline does is store status failed with that
\* exception's message and stop; a failed record has an error, and neither
\* its status nor its error changes again; no task or later stage runs for it.
FailureIsTerminal ==
    /\ [](\A i \in Ids :
            /\ pc[i] = "except" =>
                 /\ exc[i] # None
                 /\ Status(i) \in {"generating_script", "generating_assets", "creating_video"}
            /\ (Stored(i) /\ Status(i) = "failed") =>
                 /\ Doc(i).error # None
                 /\ pc[i] = "done"
                 /\ tasks[i] = <<>>)
    /\ [][\A i \in Ids :
            /\ (pc[i] = "except" /\ pc'[i] # "except") =>
                 /\ Status(i)' = "failed"
                 /\ Doc(i).error' = exc[i]
                 /\ pc'[i] = "done"
            /\ (Stored(i) /\ Status(i) = "failed") =>
                 /\ db'[i] = db[i]
                 /\ pc'[i] = pc[i]
                 /\ videos'[i] = videos[i]]_vars

\* A record failed by the assembly stage, and one failed by the script stage.
FailedInAssemblyAndScript ==
    \E i, j \in Ids :
        /\ Stored(i) /\ Status(i) = "failed"
        /\ Doc(i).error[1].detail = "Video creation failed"
        /\ Stored(j) /\ Status(j) = "failed"
        /\ Doc(j).error[1].detail = "Script generation failed"

\* C3: a completed record has a video_url and its video file is there whole;
\* a record in any other status has no video_url.
CompletedHasWholeVideo ==
    \A i \in Ids :
        Stored(i) =>
            IF Status(i) = "completed"
            THEN Doc(i).video_url # None /\ videos[i] = "complete"
            ELSE Doc(i).video_url = None

\* One record is completed while another failed leaving an unfinished file.
CompletedBesidePartial ==
    \E i, j \in Ids :
        /\ Stored(i) /\ Status(i) = "completed"
        /\ Stored(j) /\ Status(j) = "failed" /\ videos[j] = "partial"

Segments(i) == script[i][1].segments

\* C4: a script returned by generate_script_with_deepseek has exactly as many
\* segments as were requested, with segment_id 1, 2, ... in order.
ScriptHasRequestedSegments ==
    \A i \in Ids :
        script[i] # None =>
            /\ Len(Segments(i)) = RequestOf(i).segments
            /\ \A k \in 1..Len(Segments(i)) : Segments(i)[k].segment_id = k

\* C5: every segment of a returned script has duration duration / segments of
\* the request, whatever the provider's answer said about durations.
SegmentDurationsUniform ==
    \A i \in Ids :
        script[i] # None =>
            \A k \in 1..Len(Segments(i)) :
                Segments(i)[k].duration = TrueDiv(RequestOf(i).duration, RequestOf(i).segments)

\* A script made from an answer in which one segment carries its own duration
\* and another carries none, for a request whose split is not a whole number.
ScriptFromMixedDurations ==
    /\ script[1] # None
    /\ reply[1] # None
    /\ \E k \in 1..Len(Segments(1)) : "duration" \in DOMAIN reply[1][1].json.segments[k]
    /\ \E k \in 1..Len(Segments(1)) : "duration" \notin DOMAIN reply[1][1].json.segments[k]
    /\ Segments(1)[1].duration.den # 1

\* C6: a task whose provider call fails does not raise: it goes on to the
\* placeholder; a task raises only out of the placeholder; and when a task
\* returns, the file at the path of its kind, generation and segment exists.
AssetTasksFallBack ==
    [][\A i \in Ids : \A k \in (DOMAIN tasks[i]) \cap (DOMAIN tasks'[i]) :
         /\ tasks[i][k] = "running" => tasks'[i][k] \in {"running", "done", "in_fallback"}
         /\ (tasks'[i][k] = "raised" /\ tasks[i][k] # "raised") => tasks[i][k] = "in_fallback"
         /\ (tasks'[i][k] = "done" /\ tasks[i][k] # "done") =>
               <<TaskKind(i, k), i, TaskSegment(i, k)>> \in files']_vars

\* An image task and an audio task whose providers failed: the image task has
\* returned from its placeholder with its file written, the audio task is in
\* its placeholder.
FallbackInUse ==
    \E i \in Ids :
        /\ Len(tasks[i]) = 2
        /\ tasks[i][1] = "done"
        /\ <<"image", i, 1>> \in files
        /\ tasks[i][2] = "in_fallback"
        /\ <<"audio", i, 1>> \notin files

AllAssetsExist(i) ==
    \A k \in 1..Len(Segments(i)) :
        /\ <<"image", i, Segments(i)[k].segment_id>> \in files
        /\ <<"audio", i, Segments(i)[k].segment_id>> \in files

\* C7: when only the image and audio providers fail, every scheduled pipeline
\* reaches completed, and whenever assembly is about to start every segment's
\* image and audio file exists.
ProviderFaultsStillComplete ==
    /\ [](\A i \in Ids : pc[i] = "assemble" => AllAssetsExist(i))
    /\ \A i \in Ids : (pc[i] = "scheduled") ~> (Stored(i) /\ Status(i) = "completed")

\* Both providers have failed for the only segment's assets so far, and the
\* audio provider has just failed for the last one.
EveryProviderFailing ==
    \E i \in Ids :
        /\ Len(tasks[i]) = 4
        /\ tasks[i][1] = "done" /\ tasks[i][2] = "done" /\ tasks[i][3] = "done"
        /\ tasks[i][4] = "in_fallback"

\* C8 as stated: when create_video_from_assets runs with an image or audio
\* file of some segment missing, it raises an error naming a segment with a
\* missing file and leaves the video file as it was, and the record then
\* becomes failed with that error; the video file changes only when every
\* file exists.
MissingAssetAlwaysNamed ==
    [][\A i \in Ids :
         /\ (pc[i] = "assemble" /\ pc'[i] # "assemble" /\ ~AllAssetsExist(i)) =>
               /\ pc'[i] = "except"
               /\ exc'[i] # None
               /\ exc'[i][1].cause = "500: Missing assets for segment"
               /\ \E k \in 1..Len(Segments(i)) :
                     /\ Segments(i)[k].segment_id = exc'[i][1].segment
                     /\ \/ <<"image", i, Segments(i)[k].segment_id>> \notin files
                        \/ <<"audio", i, Segments(i)[k].segment_id>> \notin files
               /\ videos'[i] = videos[i]
         /\ videos'[i] # videos[i] => (pc[i] = "assemble" /\ AllAssetsExist(i))
         /\ (pc[i] = "except" /\ pc'[i] # "except") =>
               (Status(i)' = "failed" /\ Doc(i).error' = exc[i])]_vars

\* C8, amended: when create_video_from_assets runs with an image or audio
\* file of some segment missing, it raises and leaves the video file as it
\* was, and the record then becomes failed with what was raised; the error
\* names the first segment with a missing file, unless a clip of an earlier
\* segment could not be loaded, and then it is that clip's error; the video
\* file changes only when every file exists.
AssemblyNeedsEveryAsset ==
    [][\A i \in Ids :
         /\ (pc[i] = "assemble" /\ pc'[i] # "assemble" /\ ~AllAssetsExist(i)) =>
               LET missing == FirstMissing(i, Segments(i), files, 1)
               IN  /\ pc'[i] = "except"
                   /\ exc'[i] # None
                   /\ missing # 0
                   /\ \/ /\ exc'[i][1].cause = "500: Missing assets for segment"
                         /\ exc'[i][1].segment = Segments(i)[missing].segment_id
                         /\ Len(clips'[i]) = missing - 1
                      \/ /\ exc'[i][1].cause = "moviepy error"
                         /\ Len(clips'[i]) < missing - 1
                   /\ videos'[i] = videos[i]
         /\ videos'[i] # videos[i] => (pc[i] = "assemble" /\ AllAssetsExist(i))
         /\ (pc[i] = "except" /\ pc'[i] # "except") =>
               (Status(i)' = "failed" /\ Doc(i).error' = exc[i])]_vars

\* A record failed because the audio of its second segment was gone at
\* assembly; no video file was written.
FailedOnMissingAudio ==
    \E i \in Ids :
        /\ Stored(i) /\ Status(i) = "failed"
        /\ Doc(i).error[1].cause = "500: Missing assets for segment"
        /\ Doc(i).error[1].segment = 2
        /\ <<"audio", i, 2>> \notin files
        /\ <<"image", i, 2>> \in files
        /\ videos[i] = "absent"

\* C9: when create_video_generation answers 200, the record it returns and
\* the stored record both have status processing and the pipeline has been
\* scheduled but has not taken a step; no pipeline step happens before the
\* handler has returned.
StartReturnsProcessing ==
    /\ [](\A i \in Ids : pc[i] \notin {"none", "scheduled"} => handler[i] = "returned")
    /\ [][\A i \in Ids :
            (response[i] = None /\ response'[i] # None /\ response'[i][1].code = 200) =>
                /\ response'[i][1].body.status = "processing"
                /\ Stored(i)' /\ Status(i)' = "processing"
                /\ response'[i][1].body = Doc(i)'
                /\ pc'[i] = "scheduled"]_vars

\* The handler has answered 200 and the pipeline has since moved on.
ReturnedThenProgressed ==
    \E i \in Ids :
        /\ response[i] # None
        /\ response[i][1].code = 200
        /\ response[i][1].body.status = "processing"
        /\ Status(i) = "generating_assets"

\* C10: a request with an empty prompt, a duration outside [10, 600] or
\* segments outside [1, 10] is answered 422 and no pipeline is scheduled for it.
InvalidRequestRejected ==
    \A i \in Ids :
        LET request == RequestOf(i)
            acceptable ==
                /\ request.prompt # ""
                /\ request.duration >= MinDuration /\ request.duration <= MaxDuration
                /\ request.segments >= MinSegments /\ request.segments <= MaxSegments
        IN  (Stored(i) /\ handler[i] = "returned" /\ ~acceptable) =>
                /\ response[i][1].code = 422
                /\ pc[i] = "none"

\* C11: get_video_file serves the video of an id exactly when the record of
\* that id has status completed, and answers 404 otherwise.
VideoServedOnlyWhenCompleted ==
    [][(answer = None /\ answer' # None /\ answer'[1].op = "videos-file") =>
        LET video_id == answer'[1].id
        IN  IF video_id \in Ids /\ Stored(video_id) /\ Status(video_id) = "completed"
            THEN answer'[1].response.code = 200
            ELSE answer'[1].response.code = 404]_vars

AddSeconds(a, b) == TrueDiv(a.num * b.den + b.num * a.den, a.den * b.den)

\* concatenate_videoclips(clips, method="compose"), line 304: the clips play
\* one after another.
RECURSIVE ConcatSeconds(_, _)
ConcatSeconds(cl, n) ==
    IF n = 0 THEN ToFloat(0) ELSE AddSeconds(ConcatSeconds(cl, n - 1), cl[n].duration)

RECURSIVE AudioSeconds(_, _)
AudioSeconds(i, n) ==
    IF n = 0 THEN ToFloat(0)
    ELSE AddSeconds(AudioSeconds(i, n - 1),
                    audio_len[<<"audio", i, Segments(i)[n].segment_id>>])

\* C12: every clip of an assembled video lasts as long as the audio file of
\* its segment measures, and the whole video as long as all of them together.
ClipsLastAsLongAsAudio ==
    \A i \in Ids :
        /\ \A k \in 1..Len(clips[i]) :
              clips[i][k].duration = audio_len[<<"audio", i, clips[i][k].segment_id>>]
        /\ videos[i] = "complete" =>
              ConcatSeconds(clips[i], Len(clips[i])) = AudioSeconds(i, Len(Segments(i)))

\* A video of two segments is written whose audio files are shorter than the
\* script's segment duration.
VideoShorterThanScript ==
    \E i \in Ids :
        /\ videos[i] = "complete"
        /\ Len(clips[i]) = 2
        /\ clips[i][1].duration # Segments(i)[1].duration
        /\ ConcatSeconds(clips[i], 2) # script[i][1].total_duration

PcRank(p) ==
    CASE p = "none"         -> 0
      [] p = "scheduled"    -> 1
      [] p = "script"       -> 2
      [] p = "parse"        -> 3
      [] p = "store_script" -> 4
      [] p = "create_tasks" -> 5
      [] p = "gather"       -> 6
      [] p = "assemble"     -> 7
      [] p = "store_video"  -> 8
      [] p = "except"       -> 9
      [] OTHER              -> 10

TaskRank(t) ==
    CASE t = "pending"     -> 0
      [] t = "running"     -> 1
      [] t = "in_fallback" -> 2
      [] OTHER             -> 3

\* C13: every created record has exactly one pipeline scheduled for it when
\* its create call has returned; a pipeline enters each of its stages at most
\* once, in order, calls the script provider at most once, starts each asset
\* task at most once, and does nothing more once its record is failed.
PipelineRunsOncePerRecord ==
    /\ [](\A i \in Ids : (Stored(i) /\ handler[i] = "returned") => pc[i] # "none")
    /\ [][\A i \in Ids :
            /\ pc'[i] # pc[i] => PcRank(pc'[i]) > PcRank(pc[i])
            /\ (pc[i] = "none" /\ pc'[i] # "none") => (handler[i] = "inserted" /\ pc'[i] = "scheduled")
            /\ \A k \in (DOMAIN tasks[i]) \cap (DOMAIN tasks'[i]) :
                  tasks'[i][k] # tasks[i][k] => TaskRank(tasks'[i][k]) > TaskRank(tasks[i][k])
            /\ (Stored(i) /\ Status(i) = "failed") => (pc'[i] = "done" /\ tasks'[i] = <<>>)]_vars

\* C14: get_video_status answers 404 without a record for an id no create
\* call has stored, and 200 with the stored record for an id one has: the
\* record as it was when find_one read it, which is a record of that id still
\* when the answer is sent.
StatusOfUnknownIsNotFound ==
    /\ [][(answer = None /\ answer' # None /\ answer'[1].op = "video-status") =>
            LET video_id == answer'[1].id
                r        == answer'[1].response
            IN  IF video_id \in Ids /\ Stored(video_id)
                THEN r.code = 200 /\ r.body = Doc(video_id)
                ELSE r.code = 404 /\ "body" \notin DOMAIN r]_vars
    /\ []((answer # None /\ answer[1].op = "video-status") =>
            LET video_id == answer[1].id
                r        == answer[1].response
            IN  /\ r.code \in {200, 404}
                /\ video_id \notin Ids => r.code = 404
                /\ r.code = 404 => "body" \notin DOMAIN r
                /\ r.code = 200 =>
                      /\ video_id \in Ids /\ Stored(video_id)
                      /\ \A f \in {"id", "prompt", "duration", "segments", "created_at"} :
                            r.body[f] = Doc(video_id)[f])

\* The status of an id that no call created is asked for while a record of
\* another id is stored.
UnknownIdAsked ==
    /\ answer # None
    /\ answer[1].op = "video-status"
    /\ answer[1].id = 0
    /\ answer[1].response.code = 404
    /\ \E i \in Ids : Stored(i) /\ Status(i) = "completed"

\* C15: list_videos returns the records of the store, every one of them, the
\* most recently created first.
ListReturnsRecordsNewestFirst ==
    [][(answer = None /\ answer' # None /\ answer'[1].op = "videos") =>
        LET body   == answer'[1].response.body
            stored == { i \in DOMAIN db : db[i] # None }
        IN  /\ Len(body) = Cardinality(stored)
            /\ { body[k].id : k \in 1..Len(body) } = stored
            /\ \A k \in 1..(Len(body) - 1) : body[k].created_at >= body[k + 1].created_at]_vars

\* C16: the status is generating_assets from before the first asset task
\* starts; it does not change while a task of the generation is unresolved;
\* the pipeline goes past gather, to creating_video or to its except clause,
\* only when every task has returned or raised.
StatusWaitsForAllAssets ==
    /\ [](\A i \in Ids :
            (\E k \in DOMAIN tasks[i] : tasks[i][k] # "pending") =>
                (Stored(i) /\ Status(i) = "generating_assets"))
    /\ [][\A i \in Ids :
            /\ (\E k \in DOMAIN tasks[i] : tasks[i][k] \notin {"done", "raised"}) =>
                  (Status(i)' = Status(i) /\ pc'[i] = pc[i])
            /\ (Stored(i) /\ Status(i) # "creating_video" /\ Status(i)' = "creating_video") =>
                  (pc[i] = "gather" /\ \A k \in DOMAIN tasks[i] : tasks[i][k] = "done")]_vars

\* The placeholder of the first image has raised while the second image is
\* being generated and the audio tasks have not started.
RaisedWhileOthersRun ==
    \E i \in Ids :
        /\ Len(tasks[i]) = 4
        /\ tasks[i][1] = "raised"
        /\ tasks[i][2] = "running"
        /\ tasks[i][3] = "pending"
        /\ Status(i) = "generating_assets"

\* The pipeline of generation i has left asyncio.gather (line 365) with
\* every one of its tasks, two or more, returned: the record says so from
\* line 367 on, until a failure of the assembly.
AssetsGenerated(i) ==
    /\ Stored(i) /\ Status(i) \in {"creating_video", "completed"}
    /\ script[i] # None /\ 2 * NSegments(i) >= 2

\* C17: the asset operations of a generation run concurrently: there is a
\* state in which two or more of them are in progress at the same time.
\* Stated of a generation whose operations have all returned: some state
\* it went through had two or more of them in progress.
AssetTasksOverlap ==
    \A i \in Ids : AssetsGenerated(i) => concurrent[i] >= 2

\* C17, what holds instead, in every state of every behaviour: no two asset
\* operations of a generation are in progress at the same time, so that no
\* state has the overlap the claim says there is.
AssetTasksOneAtATime ==
    \A i \in Ids : Cardinality(InProgress(tasks[i])) <= 1 /\ concurrent[i] <= 1

\* Witness of C17: the four asset operations of a script of two segments
\* have all returned, never more than one of them in progress.
FourTasksRanInTurn ==
    /\ AssetsGenerated(1) /\ NSegments(1) = 2
    /\ concurrent[1] = 1

\* C18: when create_video_from_assets has returned or raised, no clip handle
\* it opened is still open.
ClipHandlesReleased ==
    \A i \in Ids : pc[i] \in {"store_video", "except", "done"} => handles[i] = {}

\* The record and the files the steps of pipeline i have read or written so
\* far, whether or not the files still exist.
PipelineFootprint(i) == footprint[i]

\* C19: the pipelines of two generations read and write no record or file in
\* common.
PipelinesShareNothing ==
    \A i, j \in Ids : i # j => PipelineFootprint(i) \cap PipelineFootprint(j) = {}

\* C20: the clips are concatenated in the order of the script's segments,
\* which is ascending segment_id, and a written video has one clip for each.
ClipsInScriptOrder ==
    \A i \in Ids :
        /\ \A k \in 1..Len(clips[i]) : clips[i][k].segment_id = Segments(i)[k].segment_id
        /\ \A k, m \in 1..Len(clips[i]) : k < m => clips[i][k].segment_id < clips[i][m].segment_id
        /\ videos[i] # "absent" => Len(clips[i]) = Len(Segments(i))

\* A video of two segments has been written; its asset tasks resolved with
\* both images before either audio.
TwoClipsAssembled ==
    \E i \in Ids :
        /\ videos[i] = "complete"
        /\ Len(clips[i]) = 2
        /\ clips[i][1].segment_id = 1
        /\ clips[i][2].segment_id = 2

AssetStages == {"generating_assets", "creating_video", "completed"}

\* C21: a record in generating_assets, creating_video or completed carries
\* the script generate_script_with_deepseek returned; the step that takes a
\* record from generating_script to generating_assets is the step that stores
\* the script; a stored script never changes.
ScriptStoredBeforeAssets ==
    /\ [](\A i \in Ids :
            Stored(i) /\ Status(i) \in AssetStages
                => /\ Doc(i).script # None
                   /\ Doc(i).script = script[i])
    /\ [][\A i \in Ids :
            Stored(i)
                => /\ Doc(i).script # None => db'[i][1].script = Doc(i).script
                   /\ Status(i) \notin AssetStages /\ db'[i][1].status \in AssetStages
                        => /\ Status(i) = "generating_script"
                           /\ db'[i][1].status = "generating_assets"
                           /\ Doc(i).script = None
                           /\ db'[i][1].script = script[i]
                           /\ script[i] # None]_vars

\* Witness of C21: one record completed, with its stored script of two
\* segments, and one creating its video, with its stored script.
ScriptStoredInLaterStages ==
    /\ Stored(1) /\ Status(1) = "completed"
    /\ Stored(2) /\ Status(2) = "creating_video"
    /\ \A i \in Ids : Doc(i).script # None /\ Len(Doc(i).script[1].segments) >= 1
    /\ Len(Doc(1).script[1].segments) = 2

\* line 170: what the caller of generate_script_with_deepseek receives when
\* the except clause of line 168 has caught anything, the HTTPException of
\* line 139 and that of line 154 included.
ScriptException(error) ==
    [class |-> "HTTPException", status_code |-> 500,
     detail |-> <<error.detail, error.cause>>]

\* What a caller can branch on without reading the message text.
ExceptionKind(e) == [class |-> e.class, status_code |-> e.status_code]

\* lines 138-139: the provider did not answer with success
ProviderFailure(resp) == resp.status_code # 200

\* C22: generate_script_with_deepseek returns no script for a provider
\* failure and none for a malformed payload, and reports the two as different
\* kinds of error.
ScriptErrorsDistinguishable ==
    \A i, j \in Ids :
        /\ pc[i] = "except" /\ reply[i] # None /\ ProviderFailure(reply[i][1])
        /\ pc[j] = "except" /\ reply[j] # None /\ ~ProviderFailure(reply[j][1])
        => /\ script[i] = None
           /\ script[j] = None
           /\ ExceptionKind(ScriptException(exc[i][1]))
                  # ExceptionKind(ScriptException(exc[j][1]))

\* The sum of the duration fields of the first n segments of a script,
\* added in script order from 0.
RECURSIVE SegmentSeconds(_, _)
SegmentSeconds(segs, n) ==
    IF n = 0 THEN FloatOfInt(0)
    ELSE FloatAdd(SegmentSeconds(segs, n - 1), Double(segs[n].duration))

\* C23: in every script stored on a record the durations of the segments
\* add up to total_duration.
SegmentDurationsAddUp ==
    \A i \in Ids :
        Stored(i) /\ Doc(i).script # None
            => LET vs == Doc(i).script[1]
               IN  SegmentSeconds(vs.segments, Len(vs.segments)) = Double(vs.total_duration)

\* The case of C23 that holds: a stored script with as many segments as were
\* requested, whose durations add up.
StoredScriptOfRequestedLength ==
    /\ Stored(1) /\ Doc(1).script # None
    /\ Doc(1).segments = 2 /\ Doc(1).duration = 45
    /\ Len(Doc(1).script[1].segments) = 2

\* The files an asset task may write: the final file of its kind and, for
\* audio, the WAV file of the placeholder, both named by its own video and
\* segment.
OwnPaths(i, k) ==
    { <<kind, i, TaskSegment(i, k)>> :
        kind \in {TaskKind(i, k)} \cup (IF TaskKind(i, k) = "audio" THEN {"wav"} ELSE {}) }

CreationFields == {"id", "prompt", "duration", "segments", "created_at"}

\* C25: a stored record stays stored with the same keys; it changes only in
\* a step of its own pipeline, one record in a step, and never in id, prompt,
\* duration, segments or created_at; a step that answers a read changes no
\* record.
RecordWrittenByOwnPipeline ==
    [][/\ \A i \in Ids :
            Stored(i)
                => /\ db'[i] # None
                   /\ DOMAIN db'[i][1] = DOMAIN Doc(i)
                   /\ \A f \in CreationFields : db'[i][1][f] = Doc(i)[f]
                   /\ db'[i] # db[i]
                        => /\ pc[i] \notin {"none", "done"}
                           /\ pc'[i] # pc[i]
                           /\ answer' = answer
                           /\ \A j \in Ids \ {i} : db'[j] = db[j] /\ pc'[j] = pc[j]
       /\ answer' # answer => db' = db]_vars

\* Witness of C25: the list of videos is being answered when one pipeline
\* has written its record up to completed and the other up to failed.
ListAnsweredAfterWrites ==
    /\ answer # None /\ answer[1].op = "videos"
    /\ Stored(1) /\ Status(1) = "completed" /\ Doc(1).video_url # None
    /\ Stored(2) /\ Status(2) = "failed" /\ Doc(2).error # None

(***************************************************************************)
(* The placeholder audio over narration texts of 0 to 14 words: one        *)
(* generation, a script of one or two segments, every provider call        *)
(* failing.                                                                *)
(***************************************************************************)
NarrationTexts ==
    { "", "   ", "tides", "the  moon   pulls", "the moon pulls the sea",
      "the moon pulls the sea twice daily", "the moon pulls the sea twice a day",
      "the moon pulls the sea twice in every single day",
      "the moon pulls the sea toward it twice in every single day and night" }

NarrationPayload(text) ==
    [segment_id |-> 1, content |-> text, image_prompt |-> "a beach at low tide"]

NarrationResponses ==
    { [status_code |-> 200, wrap |-> "json", valid |-> TRUE,
       json |-> [segments |-> << NarrationPayload(t) >>]] : t \in NarrationTexts }
        \cup { [status_code |-> 200, wrap |-> "json", valid |-> TRUE,
                json |-> [segments |-> << NarrationPayload(t), NarrationPayload(u) >>]] :
                 t \in NarrationTexts, u \in NarrationTexts }

NextPlaceholder ==
    \/ StartInsert(1, [prompt |-> "intro to tides", duration |-> 30, segments |-> 2])
    \/ InsertLands(1)
    \/ StartReturn(1)
    \/ SetGeneratingScript(1)
    \/ \E resp \in NarrationResponses : ScriptReply(1, resp)
    \/ ParseScript(1)
    \/ StoreScript(1)
    \/ CreateTasks(1)
    \/ \E k \in 1..4 : TaskStart(1, k)
    \/ \E k \in 1..4, outcome \in ProviderOutcomes \ {"ok"} :
          ProviderReturn(1, k, outcome)
    \/ \E k \in 1..4, outcome \in FallbackOutcomes : FallbackReturn(1, k, outcome)
    \/ GatherReturn(1)

SpecPlaceholder == Init /\ [][NextPlaceholder]_vars

\* C26: the silent clip the audio placeholder writes for a text of w words
\* lasts max(3, w / 2.5) seconds: at least 3 seconds, 3 seconds up to 7
\* words and w / 2.5 above, and it has floor(44100 * duration) samples,
\* the product taken exactly.
PlaceholderLastsItsEstimate ==
    \A p \in DOMAIN silent_audio :
        LET samples == silent_audio[p]
            w       == Words(Segments(p[2])[p[3]].content)
            stated  == IF 2 * w > 15 THEN (SampleRate * 2 * w) \div 5 ELSE SampleRate * 3
        IN  /\ samples >= 3 * SampleRate
            /\ w <= 7 => samples = 3 * SampleRate
            /\ w > 7 => 5 * samples = 2 * w * SampleRate
            /\ samples = stated

\* C26, what holds instead: the clip has the samples of the estimate or one
\* less, and never less than those of 3 seconds.
PlaceholderWithinOneSample ==
    \A p \in DOMAIN silent_audio :
        LET samples == silent_audio[p]
            w       == Words(Segments(p[2])[p[3]].content)
        IN  /\ samples >= 3 * SampleRate
            /\ w <= 7 => samples = 3 * SampleRate
            /\ \E short \in {0, 1} :
                  samples + short = (IF 2 * w > 15 THEN (SampleRate * 2 * w) \div 5
                                     ELSE SampleRate * 3)

\* Witness of C26: placeholder files written for a text of 5 words
\* (3 seconds, 132300 samples) and for one of 8 words (3.2 seconds, 141120
\* samples).
PlaceholderAtAndAboveMinimum ==
    /\ DOMAIN silent_audio = {<<"wav", 1, 1>>, <<"wav", 1, 2>>}
    /\ Words(Segments(1)[1].content) = 5 /\ silent_audio[<<"wav", 1, 1>>] = 3 * SampleRate
    /\ Words(Segments(1)[2].content) = 8 /\ 5 * silent_audio[<<"wav", 1, 2>>] = 16 * SampleRate
    /\ DOMAIN audio_len = {<<"audio", 1, 1>>, <<"audio", 1, 2>>}

(***************************************************************************)
(* The program with every call returning: the handler of a request that    *)
(* has inserted its record runs on, and so does every pipeline the loop    *)
(* holds, whatever the providers, the renderer and the store answer.  The  *)
(* clients' requests and the removal of files are under no obligation.     *)
(***************************************************************************)
EveryStep(i) ==
    \/ InsertLands(i)
    \/ StartReturn(i)
    \/ SetGeneratingScript(i)
    \/ \E resp \in PipelineResponses : ScriptReply(i, resp)
    \/ ParseScript(i)
    \/ StoreScript(i)
    \/ CreateTasks(i)
    \/ \E k \in 1..(2 * MaxPayload) : TaskStart(i, k)
    \/ \E k \in 1..(2 * MaxPayload), outcome \in ProviderOutcomes :
          ProviderReturn(i, k, outcome)
    \/ \E k \in 1..(2 * MaxPayload), outcome \in FallbackOutcomes : FallbackReturn(i, k, outcome)
    \/ GatherReturn(i)
    \/ \E render \in RenderOutcomes : Assemble(i, render)
    \/ SetCompleted(i)
    \/ SetFailed(i)

SpecReturns == Init /\ [][Next]_vars /\ \A i \in Ids : WF_vars(EveryStep(i))

Terminal(i) == Stored(i) /\ Status(i) \in {"completed", "failed"}

\* C27: every stored record eventually has status completed or failed,
\* when every call made for it returns.
EveryRecordTerminates ==
    \A i \in Ids : Stored(i) ~> Terminal(i)

\* The case of C27 that holds: a record whose pipeline was scheduled has
\* reached failed through a failing assembly.
ScheduledRecordTerminated ==
    /\ Terminal(1) /\ Status(1) = "failed" /\ pc[1] = "done"
    /\ Doc(1).error # None /\ Doc(1).error[1].detail = "Video creation failed"

=============================================================================
